---- MODULE Spec2Model ----
(***************************************************************************)
(* A model of src/src/Semaphore.ts: the counting semaphore with a FIFO     *)
(* queue of promise resolvers, timed waits and the execute() wrapper.      *)
(*                                                                         *)
(* The semaphore's fields are `permits` and `promiseResolverQueue`.  Every *)
(* promise created by the slow path of wait()/waitFor() is a handle, named *)
(* by a number in creation order; `promise` holds its settled state and    *)
(* `timer` the state of the setTimeout started for it by waitFor().        *)
(* A caller is a task: a record of where it stands, kept in the bag        *)
(* `tasks` while a call of it is in flight or it is inside the guarded     *)
(* section.  Each synchronous stretch of JavaScript (a method body, a      *)
(* continuation after an await, a timer callback) is one action, as the    *)
(* event loop runs it without interleaving.                                *)
(***************************************************************************)
EXTENDS Integers, Sequences, FiniteSets, Bags

\* ---------------------------------------------------------------- bounds
\* Largest and smallest (as a deficit) count given to the constructor.
MaxInitial == 1
MaxDeficit == 1
\* Handles (promises of the slow path) created over a run.
MaxHandles == 2
\* Tasks at a time: one more than the largest initial count.
NumTasks == MaxInitial + 1
\* signal() is cut off when it would raise permits above this.
MaxPermits == MaxInitial + 1
\* Length of the run of tryAcquire calls that is counted from construction.
MaxTry == MaxInitial + 2

Handles == 1..MaxHandles

VARIABLES
  permits,               \* this.permits
  promiseResolverQueue,  \* this.promiseResolverQueue: handles, head first
  promise,               \* handle -> "unused" | "pending" | "true" | "false"
  timer,                 \* handle -> "none" | "armed" | "fired"
  nHandles,              \* handles created so far
  thrown,                \* signal() has thrown its Error
  tasks,                 \* bag of the tasks under way
  initial,               \* history: the constructor's argument
  drained,               \* history: what drainPermits returned, if it was the step just taken
  ops,                   \* history: method calls made so far, capped at 2
  tryCalls,              \* history: tryAcquire calls, while nothing else was called
  tryTrue,               \* history: those of them that returned true
  signals,               \* history: signal calls made on a negative count, up to SignalCap
  net                    \* history: signals completed - permits acquired - permits drained

vars == <<permits, promiseResolverQueue, promise, timer, nHandles, thrown,
          tasks, initial, drained, ops, tryCalls, tryTrue, signals, net>>

semVars == <<permits, promiseResolverQueue, promise, timer, nHandles, thrown>>

\* `drained` when the call just made was not drainPermits.
NoDrain == 0 - 1

\* ------------------------------------------------------------------- tasks
\* A task awaiting the promise of `method` ("wait", also for acquire;
\* "waitFor"; "execute", at its `await this.wait()`): handle h, or 0 for the
\* Promise.resolve(true) of the fast path.
AwaitTask(method, h) ==
  [pc |-> "awaiting", call |-> method, awaited |-> h, outcome |-> "none",
   signals |-> 0]

\* A task inside the guarded section, after an acquisition that gave true.
InsideTask ==
  [pc |-> "inside", call |-> "none", awaited |-> 0, outcome |-> "none",
   signals |-> 0]

\* A task whose execute() runs func.
WorkTask ==
  [pc |-> "execWork", call |-> "execute", awaited |-> 0, outcome |-> "none",
   signals |-> 0]

\* A task whose execute() has run its finally block n times signalling, func
\* having ended with outcome o, which the caller has not received yet.
SettledTask(o, n) ==
  [pc |-> "execSettled", call |-> "execute", awaited |-> 0, outcome |-> o,
   signals |-> n]

One(t) == SetToBag({t})

\* ------------------------------------------------------ the code, as operators

\* Mutant of Resolver: a resolver that overwrites an outcome already set.
ResolverOverwrite(pr, h, v) == [pr EXCEPT ![h] = v]

\* The resolve function of a Promise: the first call settles it, later calls
\* do nothing.
Resolver(pr, h, v) == IF pr[h] = "pending" THEN [pr EXCEPT ![h] = v] ELSE pr

\* Array.prototype.indexOf: zero-based index of the first occurrence, or -1.
indexOf(q, h) ==
  IF \E i \in 1..Len(q) : q[i] = h
  THEN (CHOOSE i \in 1..Len(q) : q[i] = h /\ \A j \in 1..(i - 1) : q[j] # h) - 1
  ELSE -1

\* Mutant of splice: splice(start) without the delete count, which removes
\* everything from start on.
spliceToEnd(q, start) ==
  LET from == IF start < 0
              THEN (IF Len(q) + start < 0 THEN 0 ELSE Len(q) + start)
              ELSE (IF start > Len(q) THEN Len(q) ELSE start)
  IN SubSeq(q, 1, from)

\* Array.prototype.splice(start, 1): a negative start counts from the end.
splice(q, start) ==
  LET from == IF start < 0
              THEN (IF Len(q) + start < 0 THEN 0 ELSE Len(q) + start)
              ELSE (IF start > Len(q) THEN Len(q) ELSE start)
  IN [i \in 1..(IF from < Len(q) THEN Len(q) - 1 ELSE Len(q)) |->
        IF i <= from THEN q[i] ELSE q[i + 1]]

\* getPermits()
getPermits == permits

\* Mutant of permitFree: the test written `this.permits >= 0`.
permitFreeOrZero(pm) == pm >= 0

\* Mutant of permitFree: the test written `this.permits > 1`.
permitFreeAboveOne(pm) == pm > 1

\* The test `this.permits > 0` of wait, waitFor, tryAcquire and drainPermits.
permitFree(pm) == pm > 0

\* Mutant of takePermit: the fast path forgets the decrement.
takePermitNot(pm) == pm

\* The fast path of wait/waitFor/tryAcquire: this.permits -= 1.
takePermit(pm) == pm - 1

\* Mutant of push: unshift, the new resolver goes to the front.
pushFront(q, h) == <<h>> \o q

\* promiseResolverQueue.push(resolver)
push(q, h) == Append(q, h)

\* Mutant of drainPermits: the count is reset to 0 whatever it was.
drainPermitsReset(pm) == [permits |-> 0, val |-> IF pm > 0 THEN pm ELSE 0]

\* Mutant of drainPermits: the test written `this.permits !== 0`.
drainPermitsNonZero(pm) ==
  IF pm # 0 THEN [permits |-> 0, val |-> pm] ELSE [permits |-> pm, val |-> 0]

\* drainPermits(): the new count and the returned value.
drainPermits(pm) ==
  IF pm > 0 THEN [permits |-> 0, val |-> pm] ELSE [permits |-> pm, val |-> 0]

\* Mutant of signal: the hand-over forgets `this.permits -= 1`.
signalKeepsPermit(pm, q, pr) ==
  LET p1 == pm + 1 IN
  IF p1 > 1 /\ Len(q) > 0
  THEN [permits |-> p1, queue |-> q, promise |-> pr, thrown |-> TRUE]
  ELSE IF p1 = 1 /\ Len(q) > 0
  THEN [permits |-> p1, queue |-> Tail(q),
        promise |-> Resolver(pr, Head(q), "true"), thrown |-> FALSE]
  ELSE [permits |-> p1, queue |-> q, promise |-> pr, thrown |-> FALSE]

\* Mutant of signal: no hand-over branch, waiters are never resolved.
signalNoHandOver(pm, q, pr) ==
  LET p1 == pm + 1 IN
  [permits |-> p1, queue |-> q, promise |-> pr,
   thrown |-> (p1 > 1 /\ Len(q) > 0)]

\* Mutant of signal: the hand-over test written `this.permits <= 1`.
signalHandsOverEarly(pm, q, pr) ==
  LET p1 == pm + 1 IN
  IF p1 > 1 /\ Len(q) > 0
  THEN [permits |-> p1, queue |-> q, promise |-> pr, thrown |-> TRUE]
  ELSE IF p1 <= 1 /\ Len(q) > 0
  THEN [permits |-> p1 - 1, queue |-> Tail(q),
        promise |-> Resolver(pr, Head(q), "true"), thrown |-> FALSE]
  ELSE [permits |-> p1, queue |-> q, promise |-> pr, thrown |-> FALSE]

\* signal(): the increment, then the throw, the hand-over to the head of the
\* queue, or nothing more.
signal(pm, q, pr) ==
  LET p1 == pm + 1 IN
  IF p1 > 1 /\ Len(q) > 0
  THEN [permits |-> p1, queue |-> q, promise |-> pr, thrown |-> TRUE]
  ELSE IF p1 = 1 /\ Len(q) > 0
  THEN [permits |-> p1 - 1, queue |-> Tail(q),
        promise |-> Resolver(pr, Head(q), "true"), thrown |-> FALSE]
  ELSE [permits |-> p1, queue |-> q, promise |-> pr, thrown |-> FALSE]

\* release() is signal().
release(pm, q, pr) == signal(pm, q, pr)

\* Mutant of timeoutCallback: the resolver is not removed from the queue.
timeoutCallbackNoRemove(q, pr, h) ==
  [queue |-> q, promise |-> Resolver(pr, h, "false")]

\* Mutant of timeoutCallback: splice without the `index !== -1` test.
timeoutCallbackNoCheck(q, pr, h) ==
  [queue |-> splice(q, indexOf(q, h)), promise |-> Resolver(pr, h, "false")]

\* Mutant of timeoutCallback: the callback shifts the queue instead of
\* splicing at the index of its own resolver.
timeoutCallbackShift(q, pr, h) ==
  [queue |-> IF indexOf(q, h) # -1 THEN Tail(q) ELSE q,
   promise |-> Resolver(pr, h, "false")]

\* Mutant of timeoutCallback: the resolver is removed but never called.
timeoutCallbackNoResolve(q, pr, h) ==
  LET index == indexOf(q, h) IN
  [queue |-> IF index # -1 THEN splice(q, index) ELSE q, promise |-> pr]

\* The callback given to setTimeout by waitFor, for handle h.
timeoutCallback(q, pr, h) ==
  LET index == indexOf(q, h) IN
  [queue |-> IF index # -1 THEN splice(q, index) ELSE q,
   promise |-> Resolver(pr, h, "false")]

\* Mutant of finallySignals: signal() after the await, without try/finally.
finallySignalsOnSuccess(outcome) == outcome = "ok"

\* Whether execute's `finally` runs signal() for this outcome of func.
finallySignals(outcome) == TRUE

\* ---------------------------------------------------------------- Init
Init ==
  /\ initial \in (0 - MaxDeficit)..MaxInitial
  /\ permits = initial
  /\ promiseResolverQueue = <<>>
  /\ promise = [h \in Handles |-> "unused"]
  /\ timer = [h \in Handles |-> "none"]
  /\ nHandles = 0
  /\ thrown = FALSE
  /\ tasks = EmptyBag
  /\ drained = NoDrain
  /\ ops = 0
  /\ tryCalls = 0
  /\ tryTrue = 0
  /\ signals = 0
  /\ net = 0

\* ------------------------------------------------------- history bookkeeping
\* A method other than tryAcquire is called.
OtherCall ==
  /\ ops' = IF ops < 2 THEN ops + 1 ELSE 2
  /\ tryCalls' = 0 - 1
  /\ tryTrue' = 0 - 1

\* A continuation or a timer callback runs: no method is called.
NoCall == UNCHANGED <<ops, tryCalls, tryTrue>>

\* Signal calls are counted on a semaphore constructed with -k, up to k + 1.
SignalCap == IF initial < 0 THEN 1 - initial ELSE 0

\* The handles that become granted when the outcomes change from pr to pr2.
Granted(pr, pr2) == {h \in Handles : pr[h] = "pending" /\ pr2[h] = "true"}

\* The step acquires n permits (a fast path, a drain) and calls no signal.
Acquired(n) == net' = net - n /\ signals' = signals

\* The step neither calls signal nor acquires.
NoPermitMoves == UNCHANGED <<signals, net>>

\* ---------------------------------------------------------------- actions

\* The body of wait() and the head of waitFor(): fast path or enqueue.
\* `timed` says whether a timer is started for the new handle.
Enqueue(method, timed) ==
  /\ BagCardinality(tasks) < NumTasks
  /\ IF permitFree(permits)
     THEN /\ permits' = takePermit(permits)
          /\ tasks' = tasks (+) One(AwaitTask(method, 0))
          /\ Acquired(1)
          /\ UNCHANGED <<promiseResolverQueue, promise, timer, nHandles>>
     ELSE /\ nHandles < MaxHandles
          /\ nHandles' = nHandles + 1
          /\ promise' = [promise EXCEPT ![nHandles + 1] = "pending"]
          /\ promiseResolverQueue' = push(promiseResolverQueue, nHandles + 1)
          /\ timer' = [timer EXCEPT ![nHandles + 1] = IF timed THEN "armed" ELSE "none"]
          /\ tasks' = tasks (+) One(AwaitTask(method, nHandles + 1))
          /\ NoPermitMoves
          /\ UNCHANGED permits
  /\ drained' = NoDrain
  /\ OtherCall

\* wait()
Wait == Enqueue("wait", FALSE) /\ UNCHANGED <<thrown, initial>>

\* acquire() returns this.wait().
Acquire == Enqueue("wait", FALSE) /\ UNCHANGED <<thrown, initial>>

\* waitFor(milliseconds)
WaitFor == Enqueue("waitFor", TRUE) /\ UNCHANGED <<thrown, initial>>

\* execute(func): its first statement, `await this.wait()`.
Execute == Enqueue("execute", FALSE) /\ UNCHANGED <<thrown, initial>>

\* Whether the promise awaited by task t has settled.
Settled(t) ==
  IF t.awaited = 0 THEN TRUE ELSE promise[t.awaited] \in {"true", "false"}

\* What `await` yields for it: true or false.
Outcome(t) ==
  IF t.awaited = 0 THEN TRUE ELSE promise[t.awaited] = "true"

\* The continuation of a caller awaiting wait(), acquire() or waitFor(): on
\* true it enters the guarded section, on false it is done.
Resume(t) ==
  /\ BagIn(t, tasks)
  /\ t.pc = "awaiting"
  /\ t.call \in {"wait", "waitFor"}
  /\ Settled(t)
  /\ tasks' = IF Outcome(t) THEN (tasks (-) One(t)) (+) One(InsideTask)
                             ELSE tasks (-) One(t)
  /\ drained' = NoDrain
  /\ NoCall
  /\ NoPermitMoves
  /\ UNCHANGED <<semVars, initial>>

\* The continuation of execute after `await this.wait()`: func starts.
ExecuteRun(t) ==
  /\ BagIn(t, tasks)
  /\ t.pc = "awaiting"
  /\ t.call = "execute"
  /\ Settled(t)
  /\ tasks' = (tasks (-) One(t)) (+) One(WorkTask)
  /\ drained' = NoDrain
  /\ NoCall
  /\ NoPermitMoves
  /\ UNCHANGED <<semVars, initial>>

\* One call of signal() on the semaphore's fields.
DoSignal(s) ==
  /\ permits' = s.permits
  /\ promiseResolverQueue' = s.queue
  /\ promise' = s.promise
  /\ thrown' = (thrown \/ s.thrown)
  /\ signals' = IF signals < SignalCap THEN signals + 1 ELSE signals
  /\ net' = net + (IF s.thrown THEN 0 ELSE 1) - Cardinality(Granted(promise, s.promise))

\* func returns or fails; the finally block runs.
ExecuteFinally(outcome) ==
  /\ BagIn(WorkTask, tasks)
  /\ permits < MaxPermits
  /\ IF finallySignals(outcome)
     THEN /\ DoSignal(signal(permits, promiseResolverQueue, promise))
          /\ tasks' = (tasks (-) One(WorkTask)) (+) One(SettledTask(outcome, 1))
     ELSE /\ UNCHANGED <<permits, promiseResolverQueue, promise, thrown>>
          /\ NoPermitMoves
          /\ tasks' = (tasks (-) One(WorkTask)) (+) One(SettledTask(outcome, 0))
  /\ drained' = NoDrain
  /\ NoCall
  /\ UNCHANGED <<timer, nHandles, initial>>

\* The caller of execute receives func's result or failure.
ExecuteReturn(t) ==
  /\ BagIn(t, tasks)
  /\ t.pc = "execSettled"
  /\ tasks' = tasks (-) One(t)
  /\ drained' = NoDrain
  /\ NoCall
  /\ NoPermitMoves
  /\ UNCHANGED <<semVars, initial>>

\* tryAcquire(): the caller enters the guarded section on true.
TryAcquire ==
  /\ BagCardinality(tasks) < NumTasks
  /\ IF permitFree(permits)
     THEN /\ permits' = takePermit(permits)
          /\ tasks' = tasks (+) One(InsideTask)
          /\ Acquired(1)
     ELSE UNCHANGED <<permits, tasks, signals, net>>
  /\ drained' = NoDrain
  /\ ops' = IF ops < 2 THEN ops + 1 ELSE 2
  /\ IF tryCalls >= 0 /\ tryCalls < MaxTry
     THEN /\ tryCalls' = tryCalls + 1
          /\ tryTrue' = IF permitFree(permits) THEN tryTrue + 1 ELSE tryTrue
     ELSE /\ tryCalls' = 0 - 1
          /\ tryTrue' = 0 - 1
  /\ UNCHANGED <<promiseResolverQueue, promise, timer, nHandles, thrown, initial>>

\* drainPermits(), called from anywhere.
DrainPermits ==
  /\ permits' = drainPermits(permits).permits
  /\ drained' = drainPermits(permits).val
  /\ Acquired(drainPermits(permits).val)
  /\ OtherCall
  /\ UNCHANGED <<promiseResolverQueue, promise, timer, nHandles, thrown,
                 tasks, initial>>

\* signal(), called from anywhere, whether or not the caller holds a permit.
Signal ==
  /\ permits < MaxPermits
  /\ DoSignal(signal(permits, promiseResolverQueue, promise))
  /\ drained' = NoDrain
  /\ OtherCall
  /\ UNCHANGED <<timer, nHandles, tasks, initial>>

\* A task leaves the guarded section and calls release().
Release ==
  /\ BagIn(InsideTask, tasks)
  /\ permits < MaxPermits
  /\ DoSignal(release(permits, promiseResolverQueue, promise))
  /\ tasks' = tasks (-) One(InsideTask)
  /\ drained' = NoDrain
  /\ OtherCall
  /\ UNCHANGED <<timer, nHandles, initial>>

\* The timer of handle h fires: the setTimeout callback runs.
Timeout(h) ==
  /\ timer[h] = "armed"
  /\ timer' = [timer EXCEPT ![h] = "fired"]
  /\ promiseResolverQueue' = timeoutCallback(promiseResolverQueue, promise, h).queue
  /\ promise' = timeoutCallback(promiseResolverQueue, promise, h).promise
  /\ drained' = NoDrain
  /\ NoCall
  /\ NoPermitMoves
  /\ UNCHANGED <<permits, nHandles, thrown, tasks, initial>>

\* ------------------------------------------------------------ specifications
\* The tasks that can await a promise.
Awaiters ==
  {AwaitTask(m, h) : m \in {"wait", "waitFor", "execute"}, h \in 0..MaxHandles}

\* The tasks whose execute() has finished.
Settleds == {SettledTask(o, n) : o \in {"ok", "fail"}, n \in 0..1}

\* Callers that release only what they acquired.
NextGuarded ==
  \/ Wait
  \/ Acquire
  \/ WaitFor
  \/ Execute
  \/ \E t \in Awaiters : Resume(t)
  \/ \E t \in Awaiters : ExecuteRun(t)
  \/ \E o \in {"ok", "fail"} : ExecuteFinally(o)
  \/ \E t \in Settleds : ExecuteReturn(t)
  \/ TryAcquire
  \/ DrainPermits
  \/ Release
  \/ \E h \in Handles : Timeout(h)

\* Any use of the public interface: signal() may be called at any time.
Next == NextGuarded \/ Signal

Spec == Init /\ [][Next]_vars

SpecGuarded == Init /\ [][NextGuarded]_vars

\* Callers never stop calling signal(), and the continuation of a caller of
\* wait() runs once its promise has settled: the event loop drains its
\* microtask queue.
SpecLive ==
  /\ Init
  /\ [][Next]_vars
  /\ WF_vars(Signal)
  /\ \A h \in Handles : WF_vars(Resume(AwaitTask("wait", h)))

\* ------------------------------------------------------------------ helpers
Range(q) == {q[i] : i \in 1..Len(q)}

Min(a, b) == IF a < b THEN a ELSE b

\* How many tasks are inside the guarded section (func of execute runs
\* inside it).
Inside == CopiesIn(InsideTask, tasks) + CopiesIn(WorkTask, tasks)

\* The task that awaits handle h, if there is one.
Awaits(h, method) == BagIn(AwaitTask(method, h), tasks)

\* ------------------------------------------------------------------- claims

\* C1: with n >= 1 permits and callers that signal only what they acquired,
\* never more than n tasks are inside the guarded section.
C1_AtMostNInside == initial >= 1 => Inside <= initial

\* The section is full and another caller is queued behind it.
C1_Witness ==
  /\ initial >= 1
  /\ Inside = initial
  /\ \E h \in Handles : promise[h] = "pending"
                        /\ \E m \in {"wait", "waitFor", "execute"} : Awaits(h, m)

\* C2: signal grants in arrival order: a handle that becomes granted was the
\* head of the queue and the earliest created of all queued handles, and one
\* step grants at most one handle.
C2_FifoGrant ==
  [][\A h \in Handles :
       (promise[h] = "pending" /\ promise'[h] = "true") =>
         /\ Len(promiseResolverQueue) > 0
         /\ Head(promiseResolverQueue) = h
         /\ \A g \in Range(promiseResolverQueue) : h <= g
         /\ h \notin Range(promiseResolverQueue')
         /\ \A g \in Handles \ {h} : promise'[g] = promise[g]]_vars

\* A was granted by the first signal while B, enqueued after it, still waits.
C2_Witness ==
  /\ nHandles >= 2
  /\ promise[1] = "true"
  /\ promise[2] = "pending"
  /\ promiseResolverQueue = <<2>>
  /\ permits = 0

\* C3 as stated (invariant I1 for every initial count): whenever the queue is
\* non-empty, permits equals 0.
C3_I1_AsStated == Len(promiseResolverQueue) > 0 => permits = 0

\* C3 amended: whenever the queue is non-empty, permits is not positive; it
\* is 0 when the semaphore was constructed with a count >= 0, and otherwise
\* it is not below the negative count it was constructed with.
C3_I1_Amended ==
  Len(promiseResolverQueue) > 0 =>
    /\ permits <= 0
    /\ permits >= Min(initial, 0)

\* A signal has handed a permit over while another caller is still queued.
C3_Witness ==
  /\ Len(promiseResolverQueue) > 0
  /\ permits = 0
  /\ \E h \in Handles : promise[h] = "true"

\* C4: a handle is in the queue exactly while it has no outcome, it is there
\* once, and an outcome, once set by a signal or by the timeout, never changes.
C4_ResolvedOnce ==
  /\ [](\A h \in Handles : promise[h] # "unused" =>
          /\ (h \in Range(promiseResolverQueue)) <=> (promise[h] = "pending")
          /\ Cardinality({i \in 1..Len(promiseResolverQueue) :
                            promiseResolverQueue[i] = h}) <= 1)
  /\ [][\A h \in Handles :
          promise[h] \in {"true", "false"} => promise'[h] = promise[h]]_vars

\* Both events have acted on one handle: granted first, timer fired after.
C4_Witness ==
  \E h \in Handles : promise[h] = "true" /\ timer[h] = "fired"

\* C5: a timer that fires while its handle is queued resolves it false and
\* removes it; a handle resolved false is never in the queue, never becomes
\* granted, and its caller does not enter the section; every queued handle is
\* unresolved, and a signal that takes a handle from the queue grants it at no
\* change of permits, so a signal always reaches a caller that still waits.
C5_TimeoutRemoves ==
  /\ [][\A h \in Handles :
          (timer[h] = "armed" /\ timer'[h] = "fired" /\ promise[h] = "pending") =>
            /\ promise'[h] = "false"
            /\ h \notin Range(promiseResolverQueue')
            /\ permits' = permits]_vars
  /\ [](\A h \in Handles : promise[h] = "false" =>
          h \notin Range(promiseResolverQueue))
  /\ [](\A i \in 1..Len(promiseResolverQueue) :
          promise[promiseResolverQueue[i]] = "pending")
  /\ [][\A h \in Handles : promise[h] = "false" => promise'[h] = "false"]_vars
  /\ [][(Len(promiseResolverQueue') < Len(promiseResolverQueue) /\ timer' = timer) =>
          /\ promise[Head(promiseResolverQueue)] = "pending"
          /\ promise'[Head(promiseResolverQueue)] = "true"
          /\ permits' = permits]_vars
  /\ [][\A h \in Handles :
          (promise[h] = "false" /\ Awaits(h, "waitFor")
           /\ ~(Awaits(h, "waitFor"))') =>
            (Inside' = Inside /\ permits' = permits)]_vars

\* A waitFor timed out and a signal made later went to the next waiter.
C5_Witness ==
  \E h, g \in Handles :
    /\ h < g
    /\ promise[h] = "false"
    /\ promise[g] = "true"
    /\ timer[g] = "none"

\* C6: when the timer fires after its handle was granted, nothing changes but
\* the timer: not the outcome, not the queue, not permits, no caller moves;
\* and the caller of that waitFor gets true.
C6_LateTimerNoEffect ==
  /\ [][\A h \in Handles :
          (timer[h] = "armed" /\ timer'[h] = "fired" /\ promise[h] = "true") =>
            /\ promise' = promise
            /\ promiseResolverQueue' = promiseResolverQueue
            /\ permits' = permits
            /\ tasks' = tasks]_vars
  /\ [][\A h \in Handles :
          (promise[h] = "true" /\ Awaits(h, "waitFor")
           /\ ~(Awaits(h, "waitFor"))') =>
            Inside' = Inside + 1]_vars

\* The timer of a granted handle has fired while another caller is queued.
C6_Witness ==
  /\ \E h \in Handles : promise[h] = "true" /\ timer[h] = "fired"
  /\ Len(promiseResolverQueue) > 0

\* C7: a caller of wait() or acquire() never gets false and no timer is
\* started for it; when a permit is free no handle is created, so the caller
\* does not wait; and, while callers keep calling signal(), every queued
\* caller of wait() is eventually granted and enters the section, whatever
\* timers fire.
C7_WaitEventuallyTrue ==
  /\ [](\A h \in Handles : Awaits(h, "wait") =>
          /\ promise[h] \in {"pending", "true"}
          /\ timer[h] = "none")
  /\ [][permits > 0 => nHandles' = nHandles]_vars
  /\ [][\A h \in Handles :
          (Awaits(h, "wait") /\ ~(Awaits(h, "wait"))') =>
            (promise[h] = "true" /\ Inside' = Inside + 1)]_vars
  /\ \A h \in Handles :
       Awaits(h, "wait") ~> (promise[h] = "true" /\ ~Awaits(h, "wait"))

\* A queued wait() was granted after a waitFor of another caller timed out.
C7_Witness ==
  \E h \in Handles :
    /\ Awaits(h, "wait")
    /\ promise[h] = "true"
    /\ \E g \in Handles : promise[g] = "false"

\* C8: once func has returned or failed, execute has called signal() exactly
\* once, before the caller receives the outcome; so with permits = 1 and
\* execute the only call made, permits is 1 again once a failing func has
\* finished, and a tryAcquire made then returns true.
C8_ExecuteSignalsOnce ==
  /\ [](\A t \in BagToSet(tasks) :
          /\ t.pc = "execSettled" => (t.signals = 1 /\ t.outcome \in {"ok", "fail"})
          /\ t.pc # "execSettled" => t.signals = 0)
  /\ [][\A o \in {"ok", "fail"} :
          (CopiesIn(SettledTask(o, 1), tasks') > CopiesIn(SettledTask(o, 1), tasks)) =>
            /\ CopiesIn(WorkTask, tasks') = CopiesIn(WorkTask, tasks) - 1
            /\ DoSignal(signal(permits, promiseResolverQueue, promise))]_vars
  /\ []((initial = 1 /\ ops = 1 /\ BagIn(SettledTask("fail", 1), tasks))
          => getPermits = 1)
  /\ [][(initial = 1 /\ ops = 1 /\ tasks = One(SettledTask("fail", 1))
         /\ TryAcquire) =>
           (BagIn(InsideTask, tasks') /\ permits' = 0)]_vars

\* execute was the only call made, on one permit, and its func has failed.
C8_Witness ==
  /\ initial = 1
  /\ ops = 1
  /\ \E n \in 0..1 : tasks = One(SettledTask("fail", n))

\* C9: from construction with n > 0 and only tryAcquire called, the calls
\* that returned true are the first n, each took one permit, and nothing was
\* enqueued; and no tryAcquire ever touches the queue or creates a handle: it
\* takes one permit when one is free and changes nothing otherwise.
C9_TryAcquireCounts ==
  /\ []((tryCalls >= 0 /\ initial > 0) =>
          /\ tryTrue = Min(tryCalls, initial)
          /\ permits = initial - tryTrue
          /\ Inside = tryTrue
          /\ promiseResolverQueue = <<>>
          /\ nHandles = 0)
  /\ [][TryAcquire =>
          /\ promiseResolverQueue' = promiseResolverQueue
          /\ nHandles' = nHandles
          /\ promise' = promise
          /\ permits > 0 => (permits' = permits - 1 /\ Inside' = Inside + 1)
          /\ permits <= 0 => (permits' = permits /\ tasks' = tasks)]_vars

\* The n-th call has returned true and the (n+1)-th false.
C9_Witness ==
  /\ initial > 0
  /\ tryCalls = initial + 1
  /\ tryTrue = initial
  /\ permits = 0

\* C10: drainPermits returns the count and leaves 0 when the count was
\* positive, returns 0 and leaves the count as it was otherwise, and a call
\* made right after another returns 0.
C10_DrainPermits ==
  /\ [][drained' # NoDrain =>
          /\ permits > 0 => (drained' = permits /\ getPermits' = 0)
          /\ permits <= 0 => (drained' = 0 /\ getPermits' = permits)
          /\ drained # NoDrain => drained' = 0]_vars
  /\ [](drained # NoDrain =>
          (drainPermits(permits).val = 0 /\ (drained > 0 => getPermits = 0)))

\* drainPermits has just returned a count above one.
C10_Witness == drained > 1 /\ permits = 0 /\ getPermits = 0

\* C11: on a semaphore constructed with -k, k >= 1: while at most k signal
\* calls have been made, getPermits() is the count plus the calls made and is
\* not positive, no handle is granted and no caller is inside, whoever is
\* queued; and the (k+1)-th call grants the head of the queue, leaving
\* getPermits() at 0, or makes getPermits() 1 when nobody is queued.
C11_NegativeCount ==
  /\ []((initial < 0 /\ signals <= 0 - initial) =>
          /\ getPermits = initial + signals
          /\ getPermits <= 0
          /\ \A h \in Handles : promise[h] # "true"
          /\ Inside = 0)
  /\ [][(initial < 0 /\ signals = 0 - initial /\ signals' = signals + 1) =>
          IF Len(promiseResolverQueue) > 0
          THEN /\ promise'[Head(promiseResolverQueue)] = "true"
               /\ promiseResolverQueue' = Tail(promiseResolverQueue)
               /\ getPermits' = 0
          ELSE getPermits' = 1]_vars

\* The first k signals have been made while a caller waits, ungranted.
C11_Witness ==
  /\ initial < 0
  /\ signals = 0 - initial
  /\ Len(promiseResolverQueue) > 0
  /\ permits = 0
  /\ \A h \in Handles : promise[h] # "true"

\* C12: while a caller is queued no permit is visible as free: getPermits()
\* is not positive and tryAcquire's test fails, so a tryAcquire made then
\* takes nothing, a wait, acquire, waitFor or execute made then goes to the
\* tail of the queue, and a signal made then leaves permits not positive,
\* granting the head of the queue when permits was 0.
C12_NoBarging ==
  /\ [](Len(promiseResolverQueue) > 0 =>
          (getPermits <= 0 /\ ~permitFree(permits)))
  /\ [][(Len(promiseResolverQueue) > 0 /\ TryAcquire) =>
          (permits' = permits /\ tasks' = tasks /\ promise' = promise)]_vars
  /\ [][(Len(promiseResolverQueue) > 0 /\ (Wait \/ Acquire \/ WaitFor \/ Execute)) =>
          /\ permits' = permits
          /\ promiseResolverQueue' = Append(promiseResolverQueue, nHandles')
          /\ promise'[nHandles'] = "pending"
          /\ \A h \in Handles \ {nHandles'} : promise'[h] = promise[h]]_vars
  /\ [][(Len(promiseResolverQueue) > 0
         /\ (Signal \/ Release \/ \E o \in {"ok", "fail"} : ExecuteFinally(o))) =>
          /\ getPermits' <= 0
          /\ permits = 0 =>
               /\ promise'[Head(promiseResolverQueue)] = "true"
               /\ promiseResolverQueue' = Tail(promiseResolverQueue)]_vars

\* A released permit went to the head waiter, who is inside now, while
\* another caller is still queued and sees no permit.
C12_Witness ==
  /\ promise[1] = "true"
  /\ BagIn(InsideTask, tasks)
  /\ promiseResolverQueue = <<2>>
  /\ getPermits = 0

\* C13: a call of wait, acquire or waitFor made while permits > 0 takes
\* exactly one permit and returns a promise already resolved true: the queue,
\* the handles and the timers are untouched, and its caller enters when it
\* resumes; made while permits <= 0 it leaves permits alone and appends
\* exactly one new, unresolved handle at the tail of the queue, with a timer
\* exactly when the call is waitFor.
C13_FastPath ==
  /\ [][(Wait \/ Acquire \/ WaitFor) =>
          IF permits > 0
          THEN /\ permits' = permits - 1
               /\ promiseResolverQueue' = promiseResolverQueue
               /\ nHandles' = nHandles
               /\ promise' = promise
               /\ timer' = timer
               /\ \E m \in {"wait", "waitFor"} :
                    /\ tasks' = tasks (+) One(AwaitTask(m, 0))
                    /\ Settled(AwaitTask(m, 0))
                    /\ Outcome(AwaitTask(m, 0))
          ELSE /\ permits' = permits
               /\ nHandles' = nHandles + 1
               /\ promiseResolverQueue' = promiseResolverQueue \o <<nHandles'>>
               /\ nHandles' \notin Range(promiseResolverQueue)
               /\ promise[nHandles'] = "unused"
               /\ promise' = [promise EXCEPT ![nHandles'] = "pending"]
               /\ timer' = [timer EXCEPT ![nHandles'] =
                              IF WaitFor THEN "armed" ELSE "none"]]_vars
  /\ [][\A m \in {"wait", "waitFor"} :
          (Awaits(0, m) /\ Resume(AwaitTask(m, 0))) => Inside' = Inside + 1]_vars

\* waitFor took the fast path: a permit is gone, nothing is queued and no
\* timer runs.
C13_Witness ==
  /\ Awaits(0, "waitFor")
  /\ permits = initial - 1
  /\ nHandles = 0
  /\ promiseResolverQueue = <<>>
  /\ \A h \in Handles : timer[h] = "none"

\* C14: a handle without a timer (enqueued by wait or acquire) is never
\* resolved false; it leaves the queue only as the head, granted by a call of
\* signal; and a timer that fires changes the outcome and the queue
\* membership of no handle but its own.
C14_WaitHandleUntouched ==
  /\ [](\A h \in Handles : timer[h] = "none" => promise[h] # "false")
  /\ [][\A h \in Handles :
          (timer[h] = "none" /\ h \in Range(promiseResolverQueue)
           /\ h \notin Range(promiseResolverQueue')) =>
            /\ promise'[h] = "true"
            /\ Head(promiseResolverQueue) = h
            /\ (Signal \/ Release \/ \E o \in {"ok", "fail"} : ExecuteFinally(o))]_vars
  /\ [][\A h \in Handles : Timeout(h) =>
          \A g \in Handles \ {h} :
            /\ promise'[g] = promise[g]
            /\ (g \in Range(promiseResolverQueue')) <=> (g \in Range(promiseResolverQueue))]_vars

\* A timer has fired, and the handle of a wait() is still queued, unresolved.
C14_Witness ==
  \E h, g \in Handles :
    /\ timer[g] = "fired"
    /\ timer[h] = "none"
    /\ promise[h] = "pending"
    /\ promiseResolverQueue = <<h>>

\* C15: a call of drainPermits leaves the queue, every handle's outcome,
\* every timer and every caller as they were, and made while the queue is
\* non-empty it returns 0 and leaves permits as it was; in every state with
\* a non-empty queue that is what a call would do.
C15_DrainLeavesWaiters ==
  /\ [][DrainPermits =>
          /\ promiseResolverQueue' = promiseResolverQueue
          /\ promise' = promise
          /\ timer' = timer
          /\ tasks' = tasks
          /\ Len(promiseResolverQueue) > 0 =>
               (drained' = 0 /\ permits' = permits)]_vars
  /\ [](Len(promiseResolverQueue) > 0 =>
          drainPermits(permits) = [permits |-> permits, val |-> 0])

\* drainPermits has just returned 0 on a negative count with a caller queued.
C15_Witness ==
  /\ drained = 0
  /\ Len(promiseResolverQueue) > 0
  /\ permits < 0
  /\ \A i \in 1..Len(promiseResolverQueue) :
       promise[promiseResolverQueue[i]] = "pending"

\* C16: signal has never thrown, and in no reachable state would a call of
\* signal throw: never is the queue non-empty with permits above 0, which is
\* what the throwing branch needs after the increment.
C16_SignalNeverThrows ==
  /\ ~thrown
  /\ ~signal(permits, promiseResolverQueue, promise).thrown
  /\ ~(permits + 1 > 1 /\ Len(promiseResolverQueue) > 0)

\* Signals were made with two, one and no caller queued: both callers were
\* granted, the last signal left a free permit, and none threw.
C16_Witness ==
  /\ ~thrown
  /\ promise[1] = "true"
  /\ promise[2] = "true"
  /\ promiseResolverQueue = <<>>
  /\ permits = 1

\* C17: permits is the constructor's count plus the signal calls completed,
\* minus the permits acquired (taken on a fast path or granted by a signal to
\* a queued caller), minus the values drainPermits returned; a step raises
\* the balance only by a signal that granted nobody and lowers it only by a
\* fast path or by a drain, by what it took; and a timer that fires, before
\* or after a grant, changes neither permits nor the balance.
C17_PermitsConserved ==
  /\ [](permits = initial + net)
  /\ [][net' > net =>
          /\ net' = net + 1
          /\ permits' = permits + 1
          /\ Granted(promise, promise') = {}
          /\ (Signal \/ Release \/ \E o \in {"ok", "fail"} : ExecuteFinally(o))]_vars
  /\ [][net' < net =>
          /\ permits > 0
          /\ permits' = permits - (net - net')
          /\ (drained' = NoDrain => net' = net - 1)
          /\ (drained' # NoDrain => net' = net - drained')]_vars
  /\ [][Granted(promise, promise') # {} =>
          (net' = net /\ permits' = permits /\ Cardinality(Granted(promise, promise')) = 1)]_vars
  /\ [][\A h \in Handles : Timeout(h) =>
          (net' = net /\ permits' = permits /\ initial' = initial)]_vars

\* A waitFor timed out, a signal granted a queued caller, a later signal left
\* a permit free, and drainPermits has just taken it.
C17_Witness ==
  /\ drained > 0
  /\ permits = 0
  /\ \E h, g \in Handles :
       /\ promise[h] = "false"
       /\ timer[h] = "fired"
       /\ promise[g] = "true"

\* ------------------------------------------------- the timer callback alone
\* One handle more than the runs of Spec create, so that a handle can be
\* queued between two others.
WideHandles == 1..(MaxHandles + 1)

\* The method behind handle h, told by whether a timer was started for it.
MethodOf(tm, h) == IF tm[h] = "none" THEN "wait" ELSE "waitFor"

\* The states the semaphore is in after MaxHandles + 1 calls of wait or
\* waitFor found no permit free, and signal then granted the first n of
\* them, before any timer has fired and any caller has resumed: the free
\* permit of a positive count was drained first, a negative count has been
\* signalled up to `permits`.
InitCallback ==
  /\ initial \in (0 - MaxDeficit)..MaxInitial
  /\ nHandles = MaxHandles + 1
  /\ timer \in [WideHandles -> {"none", "armed"}]
  /\ \E n \in 0..(MaxHandles + 1) :
       /\ promise = [h \in WideHandles |-> IF h <= n THEN "true" ELSE "pending"]
       /\ promiseResolverQueue = [i \in 1..(MaxHandles + 1 - n) |-> n + i]
       /\ permits \in (IF n > 0 THEN 0 ELSE Min(initial, 0))..0
       /\ signals = IF initial >= 0 THEN 0
                    ELSE IF n > 0 THEN SignalCap ELSE permits - initial
  /\ tasks = [t \in {AwaitTask(MethodOf(timer, h), h) : h \in WideHandles} |-> 1]
  /\ net = permits - initial
  /\ thrown = FALSE
  /\ drained = NoDrain
  /\ ops = 2
  /\ tryCalls = 0 - 1
  /\ tryTrue = 0 - 1

\* Only timers fire.
NextCallback == \E h \in WideHandles : Timeout(h)

SpecCallback == InitCallback /\ [][NextCallback]_vars

\* C18: when the timer of a handle fires while the handle is queued, at the
\* head, in the middle or at the tail, the queue loses exactly that handle
\* and keeps the others in their order, that handle is resolved false and no
\* other handle's outcome changes, and permits is unchanged.
C18_TimeoutRemovesOnlyItsOwn ==
  [][\A h \in DOMAIN timer :
       (Timeout(h) /\ h \in Range(promiseResolverQueue)) =>
         /\ promiseResolverQueue' =
              SelectSeq(promiseResolverQueue, LAMBDA g : g # h)
         /\ Len(promiseResolverQueue') = Len(promiseResolverQueue) - 1
         /\ promise' = [promise EXCEPT ![h] = "false"]
         /\ permits' = permits]_vars

\* Of three queued handles the middle one has timed out: the first and the
\* third are queued in that order.
C18_Witness ==
  \E h \in WideHandles :
    /\ promise[h] = "false"
    /\ timer[h] = "fired"
    /\ Len(promiseResolverQueue) = 2
    /\ promiseResolverQueue[1] < h
    /\ h < promiseResolverQueue[2]
    /\ promise[promiseResolverQueue[1]] = "pending"
    /\ promise[promiseResolverQueue[2]] = "pending"

\* --------------------------------------------------------- timers that fire
\* Every timer that was started fires at some time: the event loop runs the
\* callback of setTimeout once the delay has passed.  Nothing is assumed of
\* the callers: signal may never be called again.
SpecTimer ==
  /\ Init
  /\ [][Next]_vars
  /\ \A h \in Handles : WF_vars(Timeout(h))

\* C19: the timer of a queued waitFor handle is running, and, timers being
\* fair, every unresolved waitFor handle is eventually resolved, true or
\* false, and out of the queue, whether or not signal is ever called.
C19_WaitForResolves ==
  /\ [](\A h \in Handles :
          (promise[h] = "pending" /\ Awaits(h, "waitFor")) =>
            (timer[h] = "armed" /\ h \in Range(promiseResolverQueue)))
  /\ \A h \in Handles :
       (promise[h] = "pending" /\ timer[h] = "armed") ~>
         (promise[h] \in {"true", "false"} /\ h \notin Range(promiseResolverQueue))

\* A waitFor has timed out and its caller has gone on with false, while no
\* handle was ever granted.
C19_Witness ==
  \E h \in Handles :
    /\ timer[h] = "fired"
    /\ promise[h] = "false"
    /\ ~Awaits(h, "waitFor")
    /\ h \notin Range(promiseResolverQueue)
    /\ \A g \in Handles : promise[g] # "true"

====
